---- MODULE Spec2Model ----
(***************************************************************************)
(* A model of the loads harness: the workload plan (_compute), the local   *)
(* run (run / _run), the distributed coordinator (distributed_run) and the *)
(* result aggregator (TestResult, Test, Hit).                              *)
(*                                                                         *)
(* Text is a sequence of one-character strings.  Python's None is the      *)
(* empty tuple where the other values are tuples, and NoneT where they are *)
(* numbers (timestamps, which are never negative).                         *)
(***************************************************************************)
EXTENDS Integers, Sequences, FiniteSets, TLC

VARIABLES
    args,        \* the args dictionary: users, cycles (text), agents
    plan,        \* what _compute returned (or the exception it raised)
    pc,          \* position of the main program
    tierIdx,     \* run: index of the user tier of the `for user in users` loop
    greenlets,   \* run: every greenlet spawned so far, in spawn order
    ob,          \* run: the test case object shared by all greenlets
    run_result,  \* run: the unittest result the scenario reports into
    lastInv,     \* run: what the latest scenario invocation saw
    received,    \* distributed_run: received[0]
    echo,        \* distributed_run: events pushed to the local echo, per agent
    sent,        \* distributed_run: events each agent has pushed so far
    channel,     \* distributed_run: events in flight to the PULL socket, per agent
    hits,        \* TestResult.hits
    tests,       \* TestResult.tests: key -> Test
    sockets,     \* TestResult.sockets
    socket_data_received,
    start_time,  \* TestResult.start_time
    stop_time,   \* TestResult.stop_time
    observers,   \* TestResult.observers
    pushed,      \* what the observers' push methods were called with, in order
    now,         \* datetime.utcnow(), in whole seconds
    ticks,       \* how often the clock has advanced
    calls,       \* the calls a replaying caller has made, in order
    ncalls       \* how many calls a counting caller has made

runnerVars == <<args, plan, pc, tierIdx, greenlets, ob, run_result, lastInv,
                received, echo, sent, channel>>

sinkVars == <<hits, tests, sockets, socket_data_received, start_time,
              stop_time, observers, pushed, now, ticks, calls, ncalls>>

vars == <<runnerVars, sinkVars>>

-----------------------------------------------------------------------------
(* Bounds *)

MaxLen == 2        \* longest users / cycles list given to _compute alone
MaxAgents == 2     \* largest --agents value
MaxRunLen == 2     \* longest users / cycles list of a local run
MaxRunWork == 3    \* largest sum of the sizes in one list of a local run
MaxCoordWork == 2  \* largest sum of the sizes in one list of a distributed run
MaxSent == 2       \* most events one agent pushes
MaxCalls == 3      \* most calls a counting caller makes on a TestResult
MaxTicks == 2      \* most advances of the clock
TickStep == 43200  \* one advance of the clock, in seconds
MaxHits == 3       \* most hits of a caller that only adds hits
MaxObsCalls == 3   \* most calls a replaying caller makes
MaxObservers == 2  \* most observers registered
MaxProtoCalls == 6  \* calls the greenlets running tests make to a TestResult
MaxKeyCalls == 3    \* test events sent in any order to a TestResult
MaxFaults == 1     \* most invocations of one run that fail or error

-----------------------------------------------------------------------------
(* Text and numbers *)

Digits == <<"0", "1", "2", "3", "4", "5", "6", "7", "8", "9">>

IsDigit(c) == \E i \in 1..10 : Digits[i] = c

DigitVal(c) == (CHOOSE i \in 1..10 : Digits[i] = c) - 1

RECURSIVE NatStr(_)
NatStr(n) == IF n < 10 THEN <<Digits[n + 1]>>
             ELSE NatStr(n \div 10) \o <<Digits[(n % 10) + 1]>>

\* str(n): what the command line carries for the integer n
IntStr(n) == IF n < 0 THEN <<"-">> \o NatStr(0 - n) ELSE NatStr(n)

RECURSIVE Join(_)
Join(l) == IF Len(l) = 0 THEN <<>>
           ELSE IF Len(l) = 1 THEN IntStr(l[1])
           ELSE IntStr(l[1]) \o <<":">> \o Join(Tail(l))

\* s.split(':'): always at least one token, empty tokens kept
RECURSIVE split(_)
split(s) ==
    IF \A i \in 1..Len(s) : s[i] # ":" THEN <<s>>
    ELSE LET k == CHOOSE i \in 1..Len(s) :
                      s[i] = ":" /\ \A j \in 1..(i - 1) : s[j] # ":"
         IN <<SubSeq(s, 1, k - 1)>> \o split(SubSeq(s, k + 1, Len(s)))

RECURSIVE DigitsVal(_, _)
DigitsVal(t, acc) == IF Len(t) = 0 THEN acc
                     ELSE DigitsVal(Tail(t), 10 * acc + DigitVal(t[1]))

\* int(t) is defined for an optional sign followed by at least one digit
IntOk(t) ==
    LET body == IF Len(t) > 0 /\ t[1] \in {"-", "+"} THEN Tail(t) ELSE t
    IN Len(body) > 0 /\ \A i \in 1..Len(body) : IsDigit(body[i])

int(t) == IF t[1] = "-" THEN 0 - DigitsVal(Tail(t), 0)
          ELSE IF t[1] = "+" THEN DigitsVal(Tail(t), 0)
          ELSE DigitsVal(t, 0)

RECURSIVE sum(_)
sum(l) == IF Len(l) = 0 THEN 0 ELSE l[1] + sum(Tail(l))

-----------------------------------------------------------------------------
(* runner.py: _compute *)

\* agents is <<>> for None and <<n>> for the integer n
NoAgents == <<>>

\* the running total of `for user in users: total += sum([...])`
RECURSIVE TotalOver(_, _, _)
TotalOver_assign(users, cycles, total) ==
    IF Len(users) = 0 THEN total
    ELSE TotalOver(Tail(users), cycles,
                   sum([i \in 1..Len(cycles) |-> cycles[i] * users[1]]))

TotalOver(users, cycles, total) ==
    IF Len(users) = 0 THEN total
    ELSE TotalOver(Tail(users), cycles,
                   total + sum([i \in 1..Len(cycles) |-> cycles[i] * users[1]]))

_compute(a) ==
    LET ut == split(a.users)
        ct == split(a.cycles)
    IN IF \E i \in 1..Len(ut) : ~IntOk(ut[i])
       THEN [raised |-> "ValueError", total |-> 0, cycles |-> <<>>,
             users |-> <<>>, agents |-> NoAgents]
       ELSE IF \E i \in 1..Len(ct) : ~IntOk(ct[i])
       THEN [raised |-> "ValueError", total |-> 0, cycles |-> <<>>,
             users |-> <<>>, agents |-> NoAgents]
       ELSE LET users == [i \in 1..Len(ut) |-> int(ut[i])]
                cycles == [i \in 1..Len(ct) |-> int(ct[i])]
                total == TotalOver(users, cycles, 0)
            IN [raised |-> "no",
                total |-> IF a.agents # NoAgents THEN total * a.agents[1]
                          ELSE total,
                cycles |-> cycles, users |-> users, agents |-> a.agents]

NoPlan == [raised |-> "unset", total |-> 0, cycles |-> <<>>, users |-> <<>>,
           agents |-> NoAgents]

-----------------------------------------------------------------------------
(* Inputs *)

ListsOver(V, n) == UNION {[1..k -> V] : k \in 1..n}

Positive(l) == \A i \in 1..Len(l) : l[i] >= 1

\* values given to _compute alone: non-positive, one digit, several digits
ComputeValues == {-1, 0, 1, 2, 10}

ComputeLists == ListsOver(ComputeValues, MaxLen)

\* text that is no colon-separated list of integers
Malformed == {<<>>, <<"1", ":">>, <<"x">>}

AgentsArgs == {NoAgents} \cup {<<n>> : n \in 0..MaxAgents}

ComputeArgs ==
    [users : {Join(l) : l \in ComputeLists} \cup Malformed,
     cycles : {Join(l) : l \in ComputeLists} \cup Malformed,
     agents : AgentsArgs]

\* a list's work: the sum of its sizes, a non-positive one counting as 1
Work(l) == sum([i \in 1..Len(l) |-> IF l[i] < 1 THEN 1 ELSE l[i]])

RunLists == {l \in ListsOver(-1..MaxRunWork, MaxRunLen) : Work(l) <= MaxRunWork}

\* main() calls run only when --agents is absent
RunArgs == [users : {Join(l) : l \in RunLists},
            cycles : {Join(l) : l \in RunLists},
            agents : {NoAgents}]

\* the lists a text stands for, given in the text's own terms
UsersGiven(l) == args.users = Join(l)
CyclesGiven(l) == args.cycles = Join(l)

-----------------------------------------------------------------------------
(* runner.py: _run, one greenlet of a local run *)

Unset == <<>>

NewOb == [current_cycle |-> Unset, current_user |-> Unset]

NoInv == [made |-> FALSE, user |-> 0, cycle |-> 0,
          current_cycle |-> Unset, current_user |-> Unset]

NewResult == [testsRun |-> 0, success |-> 0, failures |-> 0, errors |-> 0]

Outcomes == {"success", "failure", "error"}

\* The greenlet runs from where it is to its next gevent.sleep(0), or to its
\* end.  AtCycle is the head of `for cycle in cycles`, AtRange the head of
\* `for x in range(cycle)`; o is the shared test object as this greenlet
\* leaves it.
RECURSIVE AtCycle(_, _, _, _)
RECURSIVE AtRange(_, _, _, _, _)
AtCycle(cycles, user, ci, o) ==
    IF ci > Len(cycles)
    THEN [ci |-> ci, x |-> 0, ob |-> o, invoked |-> FALSE]
    ELSE AtRange(cycles, user, ci, 0,
                 [current_cycle |-> <<cycles[ci]>>, current_user |-> <<user>>])

AtRange(cycles, user, ci, x, o) ==
    IF x < cycles[ci]
    THEN [ci |-> ci, x |-> x + 1, ob |-> o, invoked |-> TRUE]
    ELSE AtCycle(cycles, user, ci + 1, o)

_run(g, o) ==
    IF g.st = "spawned" THEN AtCycle(plan.cycles, g.user, 1, o)
    ELSE AtRange(plan.cycles, g.user, g.ci, g.x, o)

\* the greenlet sleeps after an invocation whatever its outcome, and has ended
\* when its loops ran out
After_abort(r, outcome) ==
    IF r.invoked /\ outcome = "success" THEN "sleeping" ELSE "dead"

After(r, outcome) == IF r.invoked THEN "sleeping" ELSE "dead"

\* test(test_result): the unittest case runs the scenario, catches what it
\* raises and reports exactly one outcome
Record(r, outcome) ==
    [testsRun |-> r.testsRun + 1,
     success |-> r.success + (IF outcome = "success" THEN 1 ELSE 0),
     failures |-> r.failures + (IF outcome = "failure" THEN 1 ELSE 0),
     errors |-> r.errors + (IF outcome = "error" THEN 1 ELSE 0)]

-----------------------------------------------------------------------------
(* runner.py: run *)

Group(tier) == {i \in 1..Len(greenlets) : greenlets[i].tier = tier}

\* group.join() returns when every greenlet of the group has ended
Joined_any(tier) ==
    Group(tier) = {} \/ \E i \in Group(tier) : greenlets[i].st = "dead"

Joined(tier) == \A i \in Group(tier) : greenlets[i].st = "dead"

Spawned(tier, user) ==
    [i \in 1..(IF user < 0 THEN 0 ELSE user) |->
        [num |-> i - 1, user |-> user, tier |-> tier, ci |-> 0, x |-> 0,
         st |-> "spawned"]]

\* lines 45-55: the plan, the test object and the result
RunStart ==
    /\ pc = "run"
    /\ plan' = _compute(args)
    /\ pc' = IF plan'.raised = "no" THEN "tiers" ELSE "raised"
    /\ tierIdx' = 1
    /\ ob' = NewOb
    /\ run_result' = NewResult
    /\ UNCHANGED sinkVars
    /\ UNCHANGED <<args, greenlets, lastInv, received, echo, sent, channel>>

\* lines 57-61: the group of one tier; spawning does not yield
SpawnTier ==
    /\ pc = "tiers"
    /\ tierIdx <= Len(plan.users)
    /\ greenlets' = greenlets \o Spawned(tierIdx, plan.users[tierIdx])
    /\ pc' = "join"
    /\ UNCHANGED sinkVars
    /\ UNCHANGED <<args, plan, tierIdx, ob, run_result, lastInv,
                   received, echo, sent, channel>>

\* a greenlet runs while the main greenlet waits in group.join()
Step ==
    /\ pc = "join"
    /\ \E i \in 1..Len(greenlets), outcome \in Outcomes :
          /\ greenlets[i].st # "dead"
          /\ LET r == _run(greenlets[i], ob)
             IN /\ r.invoked /\ outcome # "success"
                     => run_result.failures + run_result.errors < MaxFaults
                /\ ~r.invoked => outcome = "success"
                /\ ob' = r.ob
                /\ greenlets' =
                      [greenlets EXCEPT ![i] =
                          [@ EXCEPT !.ci = r.ci, !.x = r.x,
                                    !.st = After(r, outcome)]]
                /\ run_result' = IF r.invoked THEN Record(run_result, outcome)
                                 ELSE run_result
                /\ lastInv' =
                      IF r.invoked
                      THEN [made |-> TRUE, user |-> greenlets[i].user,
                            cycle |-> plan.cycles[r.ci],
                            current_cycle |-> r.ob.current_cycle,
                            current_user |-> r.ob.current_user]
                      ELSE lastInv
    /\ UNCHANGED sinkVars
    /\ UNCHANGED <<args, plan, pc, tierIdx, received, echo, sent, channel>>

\* line 63: group.join() returns, the loop goes to the next tier
Join_ ==
    /\ pc = "join"
    /\ Joined(tierIdx)
    /\ tierIdx' = tierIdx + 1
    /\ pc' = "tiers"
    /\ UNCHANGED sinkVars
    /\ UNCHANGED <<args, plan, greenlets, ob, run_result, lastInv,
                   received, echo, sent, channel>>

\* line 65
RunReturn ==
    /\ pc = "tiers"
    /\ tierIdx > Len(plan.users)
    /\ pc' = "returned"
    /\ UNCHANGED sinkVars
    /\ UNCHANGED <<args, plan, tierIdx, greenlets, ob, run_result, lastInv,
                   received, echo, sent, channel>>

InitSink ==
    /\ hits = <<>>
    /\ tests = <<>>
    /\ sockets = 0
    /\ socket_data_received = 0
    /\ start_time = -1
    /\ stop_time = -1
    /\ observers = <<>>
    /\ pushed = <<>>
    /\ now = 0
    /\ ticks = 0
    /\ calls = <<>>
    /\ ncalls = 0

InitRunner ==
    /\ InitSink
    /\ plan = NoPlan
    /\ tierIdx = 0
    /\ greenlets = <<>>
    /\ ob = NewOb
    /\ run_result = NewResult
    /\ lastInv = NoInv
    /\ received = 0
    /\ echo = <<>>
    /\ sent = <<>>
    /\ channel = <<>>

InitRun == args \in RunArgs /\ pc = "run" /\ InitRunner

NextRun == RunStart \/ SpawnTier \/ Step \/ Join_ \/ RunReturn

SpecRun == InitRun /\ [][NextRun]_vars

-----------------------------------------------------------------------------
(* _compute on its own *)

Compute ==
    /\ pc = "compute"
    /\ plan' = _compute(args)
    /\ pc' = "computed"
    /\ UNCHANGED sinkVars
    /\ UNCHANGED <<args, tierIdx, greenlets, ob, run_result, lastInv,
                   received, echo, sent, channel>>

InitCompute == args \in ComputeArgs /\ pc = "compute" /\ InitRunner

NextCompute == Compute

SpecCompute == InitCompute /\ [][NextCompute]_vars

-----------------------------------------------------------------------------
(* runner.py: distributed_run *)

CoordLists ==
    {l \in ListsOver(-1..MaxCoordWork, MaxLen) : Work(l) <= MaxCoordWork}

\* main() calls distributed_run only when --agents is given
CoordArgs == [users : {Join(l) : l \in CoordLists},
              cycles : {Join(l) : l \in CoordLists},
              agents : AgentsArgs \ {NoAgents}]

Agents == 1..Len(sent)

\* line 98
Completed_late(n, total) == n > total

Completed(n, total) == n = total

\* lines 70-92 and 101-103: the plan, the bound PULL socket, the agents
\* started through the broker, the counter and the loop
DistributedStart ==
    /\ pc = "distributed_run"
    /\ plan' = _compute(args)
    /\ pc' = IF plan'.raised = "no" THEN "receiving" ELSE "raised"
    /\ received' = 0
    /\ sent' = [a \in 1..(IF plan'.raised = "no" THEN args.agents[1] ELSE 0)
                  |-> 0]
    /\ channel' = sent'
    /\ echo' = sent'
    /\ UNCHANGED sinkVars
    /\ UNCHANGED <<args, tierIdx, greenlets, ob, run_result, lastInv>>

\* an agent pushes one event to the coordinator's endpoint
AgentSend ==
    /\ pc \in {"receiving", "stopped"}
    /\ \E a \in Agents :
          /\ sent[a] < MaxSent
          /\ sent' = [sent EXCEPT ![a] = @ + 1]
          /\ channel' = [channel EXCEPT ![a] = @ + 1]
    /\ UNCHANGED sinkVars
    /\ UNCHANGED <<args, plan, pc, tierIdx, greenlets, ob, run_result,
                   lastInv, received, echo>>

\* lines 94-99: the loop hands the callback one message, from whichever
\* agent has one in flight
recv_result ==
    /\ pc = "receiving"
    /\ \E a \in Agents :
          /\ channel[a] > 0
          /\ channel' = [channel EXCEPT ![a] = @ - 1]
          /\ echo' = [echo EXCEPT ![a] = @ + 1]
    /\ received' = received + 1
    /\ pc' = IF Completed(received', plan.total) THEN "stopped"
             ELSE "receiving"
    /\ UNCHANGED sinkVars
    /\ UNCHANGED <<args, plan, tierIdx, greenlets, ob, run_result, lastInv,
                   sent>>

InitCoord == args \in CoordArgs /\ pc = "distributed_run" /\ InitRunner

NextCoord == DistributedStart \/ AgentSend \/ recv_result

SpecCoord == InitCoord /\ [][NextCoord]_vars

-----------------------------------------------------------------------------
(* Claims about the workload plan and the local run *)

GivenUsers == {l \in ComputeLists : UsersGiven(l)}
GivenCycles == {l \in ComputeLists : CyclesGiven(l)}

AgentCount == IF args.agents = NoAgents THEN 1 ELSE args.agents[1]

\* C1: for positive user tiers, positive cycle sizes and an absent or positive
\* agent count, _compute returns agentCount x SUM_u (u x SUM cycles) as the
\* total, and the tiers and the cycle sizes in their input order.
C1_ExpectedTotal ==
    pc = "computed" =>
        \A ul \in GivenUsers, cl \in GivenCycles :
            Positive(ul) /\ Positive(cl) /\ AgentCount >= 1 =>
                /\ plan.raised = "no"
                /\ plan.total =
                      AgentCount * sum([i \in 1..Len(ul) |-> ul[i] * sum(cl)])
                /\ plan.users = ul
                /\ plan.cycles = cl

C1_Witness ==
    /\ pc = "computed"
    /\ args.agents = <<2>>
    /\ \E ul \in GivenUsers, cl \in GivenCycles :
          /\ Positive(ul) /\ Positive(cl)
          /\ Len(ul) = 2 /\ Len(cl) = 2
          /\ ul[1] # ul[2] /\ cl[1] # cl[2]
          /\ plan.total = 2 * sum(ul) * sum(cl)

ValidPlan ==
    plan.raised = "no" /\ Positive(plan.users) /\ Positive(plan.cycles)

Reported == run_result.success + run_result.failures + run_result.errors

C5_RejectsNonPositive ==
    (plan.raised = "no" \/ greenlets # <<>> \/ run_result.testsRun > 0)
        => Positive(plan.users) /\ Positive(plan.cycles)

\* C6: the tiers of a local run are taken in the order of the spec and never
\* overlap: while a greenlet of a tier is alive there is no greenlet of a
\* later tier, and a tier of size u has exactly u greenlets.
C6_TiersNeverOverlap ==
    ValidPlan =>
        /\ \A i, j \in 1..Len(greenlets) :
              greenlets[i].tier < greenlets[j].tier => greenlets[i].st = "dead"
        /\ \A i, j \in 1..Len(greenlets) :
              i < j => greenlets[i].tier <= greenlets[j].tier
        /\ \A i \in 1..Len(greenlets) :
              /\ greenlets[i].tier <= tierIdx
              /\ greenlets[i].user = plan.users[greenlets[i].tier]
        /\ \A k \in 1..Len(plan.users) :
              Cardinality(Group(k)) =
                  IF k < tierIdx \/ (k = tierIdx /\ pc = "join")
                  THEN plan.users[k] ELSE 0

C6_Witness ==
    /\ ValidPlan
    /\ \E i, j \in 1..Len(greenlets) :
          /\ greenlets[i].tier < greenlets[j].tier
          /\ greenlets[i].user = 2
          /\ greenlets[j].st = "sleeping"

\* C7: every invocation made by a greenlet of tier u in its cycle of size c
\* sees current_cycle = c and current_user = u on the test object.
C7_InvocationContext ==
    ValidPlan /\ lastInv.made =>
        /\ lastInv.current_cycle = <<lastInv.cycle>>
        /\ lastInv.current_user = <<lastInv.user>>

Echoed == sum(echo)

\* C3: a coordinator whose plan is positive, with total N, has stopped its
\* loop exactly when it has processed N events: it is still receiving while
\* fewer have been processed and it processes no event beyond the N-th,
\* whichever agents the events came from.
C3_StopsAtNth ==
    ValidPlan /\ plan.agents[1] >= 1 =>
        /\ pc = "receiving" => received < plan.total
        /\ pc = "stopped" => received = plan.total
        /\ Echoed = received
        /\ received + sum(channel) = sum(sent)

C3_Witness ==
    /\ ValidPlan
    /\ pc = "stopped"
    /\ \E a, b \in Agents : a # b /\ echo[a] > 0 /\ echo[b] > 0
    /\ sum(channel) > 0

-----------------------------------------------------------------------------
(* test_result.py: Test and Hit *)

\* None, where the other values are numbers, and where they are strings
NoneT == -1
NoneS == "None"

\* the seconds field of a timedelta: days are carried apart
Day == 86400

seconds(delta) == delta % Day

\* Test(): start is the time of construction
Test == [start |-> now, end |-> NoneT, name |-> NoneS,
         current_cycle |-> NoneT, user |-> NoneT,
         failures |-> <<>>, errors |-> <<>>, success |-> 0]

\* Test.finished: datetimes are true, None is not
Test_finished(t) == t.start # NoneT /\ t.end # NoneT

\* Test.duration (Unset for None)
Test_duration(t) ==
    IF t.end # NoneT THEN <<seconds(t.end - t.start)>> ELSE Unset

Hit(url, method, status, started, elapsed, loads_status, worker_id) ==
    [url |-> url, method |-> method, status |-> status, started |-> started,
     elapsed |-> elapsed,
     cycle |-> loads_status[1], user |-> loads_status[2],
     current_cycle |-> loads_status[3], current_user |-> loads_status[4],
     worker_id |-> worker_id]

-----------------------------------------------------------------------------
(* test_result.py: what TestResult's methods do to its fields *)

Key_noworker(test, loads_status, worker_id) ==
    <<test, loads_status[4], loads_status[3], NoneS>>

\* self.tests[key] of the defaultdict: the Test under key, made when absent
Key(test, loads_status, worker_id) ==
    <<test, loads_status[4], loads_status[3], worker_id>>

Lookup(key) == IF key \in DOMAIN tests THEN tests[key] ELSE Test

Store(key, t) ==
    [k \in (DOMAIN tests) \cup {key} |-> IF k = key THEN t ELSE tests[k]]

startTestRun ==
    /\ start_time' = now
    /\ UNCHANGED <<hits, tests, sockets, socket_data_received, stop_time>>

stopTestRun ==
    /\ stop_time' = now
    /\ UNCHANGED <<hits, tests, sockets, socket_data_received, start_time>>

startTest(test, loads_status, worker_id) ==
    /\ tests' = Store(Key(test, loads_status, worker_id),
                      [Lookup(Key(test, loads_status, worker_id))
                          EXCEPT !.name = test,
                                 !.current_cycle = loads_status[3],
                                 !.user = loads_status[2]])
    /\ UNCHANGED <<hits, sockets, socket_data_received, start_time, stop_time>>

stopTest(test, loads_status, worker_id) ==
    /\ tests' = Store(Key(test, loads_status, worker_id),
                      [Lookup(Key(test, loads_status, worker_id))
                          EXCEPT !.end = now])
    /\ UNCHANGED <<hits, sockets, socket_data_received, start_time, stop_time>>

addError(test, exc_info, loads_status, worker_id) ==
    /\ tests' = Store(Key(test, loads_status, worker_id),
                      [Lookup(Key(test, loads_status, worker_id))
                          EXCEPT !.errors = Append(@, exc_info)])
    /\ UNCHANGED <<hits, sockets, socket_data_received, start_time, stop_time>>

addFailure(test, exc_info, loads_status, worker_id) ==
    /\ tests' = Store(Key(test, loads_status, worker_id),
                      [Lookup(Key(test, loads_status, worker_id))
                          EXCEPT !.failures = Append(@, exc_info)])
    /\ UNCHANGED <<hits, sockets, socket_data_received, start_time, stop_time>>

addSuccess_twice(test, loads_status, worker_id) ==
    /\ tests' = Store(Key(test, loads_status, worker_id),
                      [Lookup(Key(test, loads_status, worker_id))
                          EXCEPT !.success = @ + 2])
    /\ UNCHANGED <<hits, sockets, socket_data_received, start_time, stop_time>>

addSuccess(test, loads_status, worker_id) ==
    /\ tests' = Store(Key(test, loads_status, worker_id),
                      [Lookup(Key(test, loads_status, worker_id))
                          EXCEPT !.success = @ + 1])
    /\ UNCHANGED <<hits, sockets, socket_data_received, start_time, stop_time>>

add_hit_front(data) ==
    /\ hits' = <<Hit(data.url, data.method, data.status, data.started,
                     data.elapsed, data.loads_status, data.worker_id)>> \o hits
    /\ UNCHANGED <<tests, sockets, socket_data_received, start_time, stop_time>>

add_hit(data) ==
    /\ hits' = Append(hits, Hit(data.url, data.method, data.status,
                                data.started, data.elapsed, data.loads_status,
                                data.worker_id))
    /\ UNCHANGED <<tests, sockets, socket_data_received, start_time, stop_time>>

socket_open ==
    /\ sockets' = sockets + 1
    /\ UNCHANGED <<hits, tests, socket_data_received, start_time, stop_time>>

socket_close ==
    /\ sockets' = sockets - 1
    /\ UNCHANGED <<hits, tests, socket_data_received, start_time, stop_time>>

socket_message_one(size) ==
    /\ socket_data_received' = socket_data_received + 1
    /\ UNCHANGED <<hits, tests, sockets, start_time, stop_time>>

socket_message(size) ==
    /\ socket_data_received' = socket_data_received + size
    /\ UNCHANGED <<hits, tests, sockets, start_time, stop_time>>

\* object.__getattribute__(self, name), called with the arguments a
Method(name, a) ==
    CASE name = "startTestRun" -> startTestRun
      [] name = "stopTestRun" -> stopTestRun
      [] name = "startTest" -> startTest(a[1], a[2], a[3])
      [] name = "stopTest" -> stopTest(a[1], a[2], a[3])
      [] name = "addError" -> addError(a[1], a[2], a[3], a[4])
      [] name = "addFailure" -> addFailure(a[1], a[2], a[3], a[4])
      [] name = "addSuccess" -> addSuccess(a[1], a[2], a[3])
      [] name = "add_hit" -> add_hit(a[1])
      [] name = "socket_open" -> socket_open
      [] name = "socket_close" -> socket_close
      [] name = "socket_message" -> socket_message(a[2])

\* the names __getattribute__ wraps
Wrapped == {"startTestRun", "stopTestRun", "startTest", "stopTest",
            "addError", "addFailure", "addSuccess", "add_hit",
            "socket_open", "socket_message"}

\* the fields of the TestResult, as an observer reads them when pushed
Committed ==
    <<hits, tests, sockets, socket_data_received, start_time, stop_time>>

Notified_all(raising) == Len(observers)

\* how many observers the loop of the wrapper reaches when the push of the
\* raising-th observer raises (0: no push raises)
Notified(raising) == IF raising = 0 THEN Len(observers) ELSE raising

\* TestResult.__getattribute__: the method, and for a wrapped name a push
\* to every observer after it, until a push raises
CallWith(name, a, raising) ==
    /\ Method(name, a)
    /\ pushed' = IF name \in Wrapped
                 THEN pushed \o [i \in 1..Notified(raising) |->
                                   [obs |-> observers[i], name |-> name,
                                    args |-> a, seen |-> Committed']]
                 ELSE pushed
    /\ UNCHANGED <<observers, now, ticks>>
    /\ UNCHANGED runnerVars

\* a call during which no push raises
Call(name, a) == CallWith(name, a, 0)

add_observer(observer) ==
    /\ observers' = Append(observers, observer)
    /\ UNCHANGED <<hits, tests, sockets, socket_data_received, start_time,
                   stop_time, pushed, now, ticks>>
    /\ UNCHANGED runnerVars

-----------------------------------------------------------------------------
(* test_result.py: the queries *)

\* a query's answer: a float num/den, the int num, None, or an exception
PyFloat(n, d) == [kind |-> "float", num |-> n, den |-> d]
PyInt(n) == [kind |-> "int", num |-> n, den |-> 1]
PyNone == [kind |-> "None", num |-> 0, den |-> 1]
Raised(e) == [kind |-> e, num |-> 0, den |-> 1]

Returned(r) == r.kind \in {"float", "int", "None"}
IsNumber(r) == r.kind \in {"float", "int"}
SameNumber(r, q) == IsNumber(r) /\ IsNumber(q) /\ r.num * q.den = q.num * r.den

RECURSIVE SumOver(_, _)
SumOver(S, f) == IF S = {} THEN 0
                 ELSE LET k == CHOOSE k \in S : TRUE
                      IN f[k] + SumOver(S \ {k}, f)

\* TestResult.duration
duration ==
    IF start_time = NoneT THEN Raised("TypeError")
    ELSE PyInt(seconds((IF stop_time # NoneT THEN stop_time ELSE now)
                     - start_time))

\* TestResult._get_hits
_get_hits(url, cycle) ==
    SelectSeq(hits, LAMBDA hit :
        /\ ~(cycle # NoneT /\ hit.current_cycle # cycle)
        /\ ~(url # NoneS /\ hit.url # url))

\* TestResult._get_tests: the keys of the tests that pass the filter
_get_tests(name, cycle, finished) ==
    {k \in DOMAIN tests :
        /\ ~(name # NoneS /\ tests[k].name # name)
        /\ ~(cycle # NoneT /\ tests[k].current_cycle # cycle)
        /\ ~(finished # Unset /\ Test_finished(tests[k]) # finished[1])}

\* TestResult.hits_success_rate
hits_success_rate_upto400(url, cycle) ==
    LET matching == _get_hits(url, cycle)
        success == SelectSeq(matching,
                             LAMBDA h : 200 <= h.status /\ h.status <= 400)
    IN IF Len(matching) > 0 THEN PyFloat(Len(success), Len(matching))
       ELSE PyInt(0)

hits_success_rate(url, cycle) ==
    LET matching == _get_hits(url, cycle)
        success == SelectSeq(matching,
                             LAMBDA h : 200 <= h.status /\ h.status < 400)
    IN IF Len(matching) > 0 THEN PyFloat(Len(success), Len(matching))
       ELSE PyInt(0)

\* TestResult.average_test_duration: `if t is not None` passes every Test,
\* and sum() raises on a duration that is None
average_test_duration(test, cycle) ==
    LET matching == _get_tests(test, cycle, Unset)
        durations == [k \in matching |-> Test_duration(tests[k])]
    IN IF matching = {} THEN PyNone
       ELSE IF \E k \in matching : durations[k] = Unset
       THEN Raised("TypeError")
       ELSE PyFloat(SumOver(matching, [k \in matching |-> durations[k][1]]),
                  Cardinality(matching))

\* Test.success_rate as the pair <<success, total>>, Unset for None
Test_success_rate(t) ==
    LET total == t.success + Len(t.failures) + Len(t.errors)
    IN IF total # 0 THEN <<t.success, total>> ELSE Unset

\* TestResult.nb_tests, nb_hits, nb_finished_tests
nb_tests == Cardinality(DOMAIN tests)

nb_hits == Len(hits)

nb_finished_tests == Cardinality(_get_tests(NoneS, NoneT, <<TRUE>>))

\* TestResult.nb_failures, nb_errors, nb_success
nb_failures ==
    SumOver(_get_tests(NoneS, NoneT, Unset),
            [k \in DOMAIN tests |-> Len(tests[k].failures)])

nb_errors ==
    SumOver(_get_tests(NoneS, NoneT, Unset),
            [k \in DOMAIN tests |-> Len(tests[k].errors)])

nb_success ==
    SumOver(_get_tests(NoneS, NoneT, Unset),
            [k \in DOMAIN tests |-> tests[k].success])

\* the sum of the fractions f[k] = <<num, den>>, k in S, as <<num, den>>
RECURSIVE SumFractions(_, _)
SumFractions(S, f) ==
    IF S = {} THEN <<0, 1>>
    ELSE LET k == CHOOSE k \in S : TRUE
             rest == SumFractions(S \ {k}, f)
         IN <<f[k][1] * rest[2] + rest[1] * f[k][2], f[k][2] * rest[2]>>

\* TestResult.test_success_rate: sum() raises on a rate that is None
test_success_rate(test, cycle) ==
    LET matching == _get_tests(test, cycle, Unset)
        rates == [k \in matching |-> Test_success_rate(tests[k])]
    IN IF matching = {} THEN PyNone
       ELSE IF \E k \in matching : rates[k] = Unset
       THEN Raised("TypeError")
       ELSE LET total == SumFractions(matching, rates)
            IN PyFloat(total[1], total[2] * Cardinality(matching))

\* TestResult.tests_per_second
tests_per_second ==
    IF start_time = NoneT \/ stop_time = NoneT THEN Raised("TypeError")
    ELSE IF seconds(stop_time - start_time) = 0
    THEN Raised("ZeroDivisionError")
    ELSE PyFloat(nb_tests, seconds(stop_time - start_time))

\* TestResult.requests_per_second
requests_per_second ==
    IF duration.kind # "int" THEN duration
    ELSE IF duration.num = 0 THEN Raised("ZeroDivisionError")
    ELSE PyFloat(Len(hits), duration.num)

-----------------------------------------------------------------------------
(* Callers of a TestResult *)

TestIds == {"t1", "t2"}
Cycles == {1, 2}
Urls == {"/a", "/b"}
HitStatuses == {199, 200, 399, 400}
Sizes == {1, 2}

\* (cycle, user, current_cycle, current_user)
LoadsStatus(cycle) == <<2, 1, cycle, 1>>

HitData(url, status, cycle) ==
    [url |-> url, method |-> "GET", status |-> status, started |-> now,
     elapsed |-> 1, loads_status |-> LoadsStatus(cycle), worker_id |-> NoneS]

\* a caller that counts its calls
Tally == ncalls' = ncalls + 1 /\ UNCHANGED calls

StartTestRun ==
    ncalls < MaxCalls /\ Call("startTestRun", <<NoneS>>) /\ Tally

StopTestRun ==
    ncalls < MaxCalls /\ Call("stopTestRun", <<NoneS>>) /\ Tally

StartTest ==
    /\ ncalls < MaxCalls
    /\ \E t \in TestIds, c \in Cycles :
          Call("startTest", <<t, LoadsStatus(c), NoneS>>)
    /\ Tally

StopTest ==
    /\ ncalls < MaxCalls
    /\ \E t \in TestIds, c \in Cycles :
          Call("stopTest", <<t, LoadsStatus(c), NoneS>>)
    /\ Tally

AddError ==
    /\ ncalls < MaxCalls
    /\ \E t \in TestIds, c \in Cycles :
          Call("addError", <<t, "exc", LoadsStatus(c), NoneS>>)
    /\ Tally

AddFailure ==
    /\ ncalls < MaxCalls
    /\ \E t \in TestIds, c \in Cycles :
          Call("addFailure", <<t, "exc", LoadsStatus(c), NoneS>>)
    /\ Tally

AddSuccess ==
    /\ ncalls < MaxCalls
    /\ \E t \in TestIds, c \in Cycles :
          Call("addSuccess", <<t, LoadsStatus(c), NoneS>>)
    /\ Tally

AddHit ==
    /\ ncalls < MaxCalls
    /\ \E status \in {200, 400} :
          Call("add_hit", <<HitData("/a", status, 1)>>)
    /\ Tally

SocketOpen ==
    ncalls < MaxCalls /\ Call("socket_open", <<LoadsStatus(1), NoneS>>) /\ Tally

SocketClose ==
    ncalls < MaxCalls /\ Call("socket_close", <<LoadsStatus(1), NoneS>>) /\ Tally

SocketMessage ==
    /\ ncalls < MaxCalls
    /\ \E size \in Sizes :
          Call("socket_message", <<LoadsStatus(1), size, NoneS>>)
    /\ Tally

\* time passes
Tick ==
    /\ ticks < MaxTicks
    /\ now' = now + TickStep
    /\ ticks' = ticks + 1
    /\ UNCHANGED <<hits, tests, sockets, socket_data_received, start_time,
                   stop_time, observers, pushed, calls, ncalls>>
    /\ UNCHANGED runnerVars

InitCaller == pc = "caller" /\ args = <<>> /\ InitRunner

NextStats ==
    \/ StartTestRun \/ StopTestRun \/ StartTest \/ StopTest
    \/ AddError \/ AddFailure \/ AddSuccess \/ AddHit
    \/ SocketOpen \/ SocketClose \/ SocketMessage \/ Tick

SpecStats == InitCaller /\ [][NextStats]_vars

\* a caller that only adds hits
AddHits ==
    /\ Len(hits) < MaxHits
    /\ \E url \in Urls, status \in HitStatuses, c \in Cycles :
          Call("add_hit", <<HitData(url, status, c)>>)
    /\ UNCHANGED <<calls, ncalls>>

NextHits == AddHits

SpecHits == InitCaller /\ [][NextHits]_vars

\* a caller that replays calls of every event through observers
ObsCalls ==
    <<[name |-> "startTestRun", args |-> <<NoneS>>],
     [name |-> "stopTestRun", args |-> <<NoneS>>],
     [name |-> "startTest", args |-> <<"t1", LoadsStatus(1), NoneS>>],
     [name |-> "stopTest", args |-> <<"t1", LoadsStatus(1), NoneS>>],
     [name |-> "addError", args |-> <<"t1", "exc", LoadsStatus(1), NoneS>>],
     [name |-> "addFailure", args |-> <<"t1", "exc", LoadsStatus(1), NoneS>>],
     [name |-> "addSuccess", args |-> <<"t1", LoadsStatus(1), NoneS>>],
     [name |-> "add_hit", args |-> <<HitData("/a", 200, 1)>>],
     [name |-> "socket_open", args |-> <<LoadsStatus(1), NoneS>>],
     [name |-> "socket_close", args |-> <<LoadsStatus(1), NoneS>>],
     [name |-> "socket_message", args |-> <<LoadsStatus(1), 1, NoneS>>],
     [name |-> "add_hit", args |-> <<HitData("/b", 400, 2)>>],
     [name |-> "socket_message", args |-> <<LoadsStatus(1), 2, NoneS>>]>>

Replay ==
    /\ Len(calls) < MaxObsCalls
    /\ \E i \in 1..Len(ObsCalls) :
          /\ Call(ObsCalls[i].name, ObsCalls[i].args)
          /\ calls' = Append(calls, ObsCalls[i])
    /\ UNCHANGED ncalls

AddObserver ==
    /\ Len(calls) < MaxObsCalls
    /\ Len(observers) < MaxObservers
    /\ add_observer(Len(observers) + 1)
    /\ calls' = Append(calls, [name |-> "add_observer",
                               args |-> <<Len(observers) + 1>>])
    /\ UNCHANGED ncalls

NextObs == Replay \/ AddObserver

SpecObs == InitCaller /\ [][NextObs]_vars

\* greenlets that run tests through one TestResult: each invocation calls
\* startTest, then one of addSuccess / addFailure / addError, then stopTest,
\* and the invocations of different greenlets interleave
Runners == {1, 2}
OutcomeEvents == {"addSuccess", "addFailure", "addError"}

NoCall == [name |-> "none", args |-> <<>>, by |-> 0]

\* the last call greenlet w made
LastBy(w) ==
    LET mine == SelectSeq(calls, LAMBDA c : c.by = w)
    IN IF mine = <<>> THEN NoCall ELSE mine[Len(mine)]

\* the key a logged call addresses
CallKey(c) == Key(c.args[1], c.args[Len(c.args) - 1], c.args[Len(c.args)])

Logged(name, a, w) ==
    /\ Call(name, a)
    /\ calls' = Append(calls, [name |-> name, args |-> a, by |-> w])

RunnerStartTest ==
    /\ Len(calls) < MaxProtoCalls
    /\ \E w \in Runners, t \in TestIds, c \in Cycles :
          /\ LastBy(w).name \in {"none", "stopTest"}
          /\ Logged("startTest", <<t, LoadsStatus(c), NoneS>>, w)
    /\ UNCHANGED ncalls

RunnerOutcome ==
    /\ Len(calls) < MaxProtoCalls
    /\ \E w \in Runners, name \in OutcomeEvents :
          LET a == LastBy(w).args
          IN /\ LastBy(w).name = "startTest"
             /\ Logged(name,
                       IF name = "addSuccess" THEN a
                       ELSE <<a[1], "exc", a[2], a[3]>>, w)
    /\ UNCHANGED ncalls

RunnerStopTest ==
    /\ Len(calls) < MaxProtoCalls
    /\ \E w \in Runners :
          LET a == LastBy(w).args
          IN /\ LastBy(w).name \in OutcomeEvents
             /\ Logged("stopTest",
                       <<a[1], a[Len(a) - 1], a[Len(a)]>>, w)
    /\ UNCHANGED ncalls

NextProto == RunnerStartTest \/ RunnerOutcome \/ RunnerStopTest

SpecProto == InitCaller /\ [][NextProto]_vars

\* a caller that sends test events in any order, with keys that differ from
\* the first one in the test, the current user, the current cycle or the
\* worker id
KeyedArgs ==
    {<<"t1", <<2, 1, 1, 1>>, NoneS>>,
     <<"t2", <<2, 1, 1, 1>>, NoneS>>,
     <<"t1", <<2, 1, 1, 2>>, NoneS>>,
     <<"t1", <<2, 1, 2, 1>>, NoneS>>,
     <<"t1", <<2, 1, 1, 1>>, "w1">>}

KeyedEvent ==
    /\ Len(calls) < MaxKeyCalls
    /\ \E name \in {"startTest", "stopTest"} \cup OutcomeEvents,
          k \in KeyedArgs :
          Logged(name,
                 IF name \in {"addError", "addFailure"}
                 THEN <<k[1], "exc", k[2], k[3]>> ELSE k, 0)
    /\ UNCHANGED ncalls

NextKeys == KeyedEvent

SpecKeys == InitCaller /\ [][NextKeys]_vars

\* a caller that registers its observers, then replays calls until a push
\* raises: the exception reaches the caller, which makes no further call
Register ==
    /\ calls = <<>>
    /\ Len(observers) < MaxObservers
    /\ add_observer(Len(observers) + 1)
    /\ UNCHANGED <<calls, ncalls>>

ReplayRaising ==
    /\ Len(calls) < MaxObsCalls
    /\ \A j \in 1..Len(calls) : calls[j].raising = 0
    /\ \E i \in 1..Len(ObsCalls), raising \in 0..Len(observers) :
          /\ raising > 0 => ObsCalls[i].name \in Wrapped
          /\ CallWith(ObsCalls[i].name, ObsCalls[i].args, raising)
          /\ calls' = Append(calls, [name |-> ObsCalls[i].name,
                                     args |-> ObsCalls[i].args,
                                     raising |-> raising])
    /\ UNCHANGED ncalls

NextRaise == Register \/ ReplayRaising

SpecRaise == InitCaller /\ [][NextRaise]_vars

-----------------------------------------------------------------------------
(* Claims about the TestResult *)

PushesTo(o) == SelectSeq(pushed, LAMBDA p : p.obs = o)

\* the calls made since observer o was registered
CallsSince(o) ==
    LET k == CHOOSE i \in 1..Len(calls) :
                 calls[i].name = "add_observer" /\ calls[i].args[1] = o
    IN SelectSeq(SubSeq(calls, k + 1, Len(calls)),
                 LAMBDA c : c.name # "add_observer")

\* C4: a registered observer has received exactly one push for every call
\* made since it was registered, whichever of the eleven events the call is,
\* with the call's name and arguments, in the order of the calls.
C4_OnePushPerCall ==
    \A i \in 1..Len(observers) :
        LET got == PushesTo(observers[i])
            made == CallsSince(observers[i])
        IN /\ Len(got) = Len(made)
           /\ \A j \in 1..Len(got) :
                 got[j].name = made[j].name /\ got[j].args = made[j].args

\* C8: while the run start stays as recorded and no stop is recorded,
\* duration never decreases from one state to the next (the clock never
\* goes back).
C8_DurationNonDecreasing ==
    [][(/\ start_time # NoneT /\ start_time' = start_time
        /\ stop_time = NoneT /\ stop_time' = NoneT)
       => duration'.num >= duration.num]_vars

HitMatches(i, url, cycle) ==
    /\ url = NoneS \/ hits[i].url = url
    /\ cycle = NoneT \/ hits[i].current_cycle = cycle

\* C9: for every url / cycle filter, hits_success_rate is the number of
\* matching hits with 200 <= status < 400 over the number of matching hits:
\* 1.0 when all are in the range, 0.0 when none is, and the integer 0 when
\* no hit matches.
C9_HitsSuccessRate ==
    \A url \in Urls \cup {NoneS}, cycle \in Cycles \cup {NoneT} :
        LET M == {i \in 1..Len(hits) : HitMatches(i, url, cycle)}
            S == {i \in M : hits[i].status \in 200..399}
            r == hits_success_rate(url, cycle)
        IN IF M = {} THEN r = PyInt(0)
           ELSE /\ r.kind = "float"
                /\ r.num * Cardinality(M) = Cardinality(S) * r.den
                /\ S = M => r.num = r.den
                /\ S = {} => r.num = 0

C9_Witness ==
    /\ Len(hits) = MaxHits
    /\ \E i, j \in 1..Len(hits) :
          /\ hits[i].url = "/a" /\ hits[j].url = "/a"
          /\ hits[i].status = 399 /\ hits[j].status = 400
    /\ SameNumber(hits_success_rate("/a", NoneT), PyFloat(1, 2))
    /\ hits_success_rate("/b", 2) = PyFloat(1, 1)
    /\ hits_success_rate("/b", 1) = PyInt(0)

\* C10: average_test_duration never fails, and when some matching test is
\* finished it is the mean duration of the finished matching tests.
C10_AverageOfFinished ==
    \A name \in TestIds \cup {NoneS}, cycle \in Cycles \cup {NoneT} :
        LET F == _get_tests(name, cycle, <<TRUE>>)
            r == average_test_duration(name, cycle)
        IN /\ Returned(r)
           /\ F # {} =>
                 /\ r.kind = "float"
                 /\ r.num * Cardinality(F) =
                       r.den * SumOver(F, [k \in F |->
                                              Test_duration(tests[k])[1]])

\* C11: test_success_rate never fails, also while a matching test has no
\* outcome yet, and when every matching test has one it is the mean of
\* success / (success + failures + errors) over the matching tests.
C11_MeanSuccessRate ==
    \A name \in TestIds \cup {NoneS}, cycle \in Cycles \cup {NoneT} :
        LET M == _get_tests(name, cycle, Unset)
            r == test_success_rate(name, cycle)
            rate == [k \in M |-> Test_success_rate(tests[k])]
        IN /\ Returned(r)
           /\ (M # {} /\ \A k \in M : rate[k] # Unset) =>
                 LET total == SumFractions(M, rate)
                 IN /\ r.kind = "float"
                    /\ r.num * total[2] * Cardinality(M) = total[1] * r.den

\* C12: once the run start and a later stop are recorded, tests_per_second
\* and requests_per_second return nb_tests and nb_hits over the whole
\* seconds between them, and never raise.
C12_PerSecond ==
    (start_time # NoneT /\ stop_time # NoneT /\ stop_time >= start_time) =>
        /\ Returned(tests_per_second)
        /\ Returned(requests_per_second)
        /\ stop_time > start_time =>
              /\ tests_per_second.num * (stop_time - start_time) =
                    nb_tests * tests_per_second.den
              /\ requests_per_second.num * (stop_time - start_time) =
                    nb_hits * requests_per_second.den

\* C20: in every state of the coordinator, for every total _compute returns,
\* the counter is at most the total and the loop has stopped exactly when
\* the counter equals the total.
C20_CounterWithinTotal ==
    pc \in {"receiving", "stopped"} =>
        /\ received <= plan.total
        /\ pc = "stopped" <=> received = plan.total

\* the logged calls of one event made with key k
CallsOf(names, k) ==
    SelectSeq(calls, LAMBDA c : c.name \in names /\ CallKey(c) = k)

\* C13: when every invocation calls startTest, one outcome, stopTest, each
\* test holds at most as many outcomes as startTest calls were made with its
\* key, and nb_success + nb_failures + nb_errors is the number of outcome
\* calls made.
C13_OutcomesCounted ==
    /\ \A k \in DOMAIN tests :
          tests[k].success + Len(tests[k].failures) + Len(tests[k].errors)
             <= Len(CallsOf({"startTest"}, k))
    /\ nb_success + nb_failures + nb_errors =
          Len(SelectSeq(calls, LAMBDA c : c.name \in OutcomeEvents))

\* two finished invocations shared one test, one succeeded and one failed
C13_Witness ==
    \E k \in DOMAIN tests :
        /\ tests[k].success = 1 /\ Len(tests[k].failures) = 1
        /\ Len(CallsOf({"stopTest"}, k)) = 2

\* C15: nb_finished_tests is the number of tests none of whose started
\* invocations still awaits its stopTest: a test is not counted from a
\* startTest with its key until the stopTest that follows it.
C15_FinishedCount ==
    nb_finished_tests =
       Cardinality({k \in DOMAIN tests :
                       Len(CallsOf({"startTest"}, k)) =
                          Len(CallsOf({"stopTest"}, k))})

\* (test id, current user, current cycle, worker id) of a logged test event
EventKey(c) ==
    <<c.args[1], c.args[Len(c.args) - 1][4], c.args[Len(c.args) - 1][3],
      c.args[Len(c.args)]>>

KeysSeen == {EventKey(calls[i]) : i \in 1..Len(calls)}

EventsOf(name, k) ==
    Len(SelectSeq(calls, LAMBDA c : c.name = name /\ EventKey(c) = k))

\* C16: after any sequence of test events there is one test per distinct
\* (test id, current user, current cycle, worker id) that appeared in them,
\* holding the outcomes of the events of its own key only; an event changes
\* no test but the one of its key, and no test is ever removed.
C16_OneBucketPerKey ==
    /\ [](/\ DOMAIN tests = KeysSeen
          /\ nb_tests = Cardinality(KeysSeen)
          /\ \A k \in KeysSeen :
                /\ tests[k].success = EventsOf("addSuccess", k)
                /\ Len(tests[k].failures) = EventsOf("addFailure", k)
                /\ Len(tests[k].errors) = EventsOf("addError", k)
                /\ Test_finished(tests[k]) <=> EventsOf("stopTest", k) > 0)
    /\ [][/\ nb_tests' >= nb_tests
          /\ \A k \in DOMAIN tests :
                /\ k \in DOMAIN tests'
                /\ k # EventKey(calls'[Len(calls')]) => tests'[k] = tests[k]
         ]_vars

\* two tests whose keys differ in the worker id only, the first of them
\* created by an outcome
C16_Witness ==
    /\ Len(calls) >= 2
    /\ calls[1].name = "addError"
    /\ \E k1, k2 \in DOMAIN tests :
          /\ k1[4] # k2[4]
          /\ <<k1[1], k1[2], k1[3]>> = <<k2[1], k2[2], k2[3]>>
          /\ tests[k1].errors # <<>> /\ tests[k2].success = 1

CallsNamed(name) == SelectSeq(calls, LAMBDA c : c.name = name)

\* the sizes passed to the socket_message calls of a log, added up
RECURSIVE SizesIn(_)
SizesIn(log) ==
    IF log = <<>> THEN 0
    ELSE (IF log[1].name = "socket_message" THEN log[1].args[2] ELSE 0)
         + SizesIn(Tail(log))

\* the step logs a call of this name
Logs(name) ==
    /\ Len(calls') = Len(calls) + 1
    /\ calls'[Len(calls')].name = name

\* C17: the socket gauge is the socket_open calls minus the socket_close
\* calls, the byte counter is the sum of the sizes given to socket_message,
\* and the three socket events change neither the tests, nor the hits, nor
\* the run start and stop.
C17_SocketCounters ==
    /\ [](/\ sockets = Len(CallsNamed("socket_open"))
                          - Len(CallsNamed("socket_close"))
          /\ socket_data_received = SizesIn(calls))
    /\ [][(Logs("socket_open") \/ Logs("socket_close")
             \/ Logs("socket_message"))
          => UNCHANGED <<tests, hits, start_time, stop_time>>]_vars

\* messages of both sizes were received and a socket was closed
C17_Witness ==
    /\ socket_data_received = 3
    /\ Len(CallsNamed("socket_message")) = 2
    /\ Len(CallsNamed("socket_close")) = 1

\* C18: nb_hits is the number of add_hit calls made and the hits are those
\* calls' hits in the order of the calls; add_hit appends one hit and
\* changes no earlier hit, no test, neither socket counter; no other call
\* changes the hits.
C18_HitsAppendOnly ==
    /\ [](/\ nb_hits = Len(CallsNamed("add_hit"))
          /\ \A i \in 1..Len(hits) :
                LET data == CallsNamed("add_hit")[i].args[1]
                IN /\ hits[i].url = data.url
                   /\ hits[i].status = data.status
                   /\ hits[i].current_cycle = data.loads_status[3])
    /\ [][/\ Len(hits') >= Len(hits)
          /\ SubSeq(hits', 1, Len(hits)) = hits
          /\ Logs("add_hit") =>
                /\ Len(hits') = Len(hits) + 1
                /\ UNCHANGED <<tests, sockets, socket_data_received>>
          /\ ~Logs("add_hit") => hits' = hits
         ]_vars

\* two different hits were added, with another event between them
C18_Witness ==
    /\ Len(hits) = 2
    /\ hits[1].url # hits[2].url
    /\ Len(calls) = 3 /\ calls[2].name = "socket_open"

\* the pushes a log of calls and registrations is to produce, obs being the
\* observers registered before it: one per call and observer, call by call,
\* the observers in the order of their registration
RECURSIVE ExpectedPushes(_, _)
ExpectedPushes(log, obs) ==
    IF log = <<>> THEN <<>>
    ELSE IF log[1].name = "add_observer"
    THEN ExpectedPushes(Tail(log), Append(obs, log[1].args[1]))
    ELSE [i \in 1..Len(obs) |->
            [obs |-> obs[i], name |-> log[1].name, args |-> log[1].args]]
         \o ExpectedPushes(Tail(log), obs)

\* C14: every call of an event pushes its name and arguments once to every
\* registered observer, in registration order and call after call, and an
\* observer that is pushed finds the change of that call already made.
C14_CommitThenNotify ==
    /\ [](LET expected == ExpectedPushes(calls, <<>>)
          IN /\ Len(pushed) = Len(expected)
             /\ \A j \in 1..Len(pushed) :
                   /\ pushed[j].obs = expected[j].obs
                   /\ pushed[j].name = expected[j].name
                   /\ pushed[j].args = expected[j].args)
    /\ [][\A j \in (Len(pushed) + 1)..Len(pushed') :
             pushed'[j].seen = Committed']_vars

\* C19: when the push of an observer raises during a call, the change of
\* the call is made all the same, the observers up to the raising one have
\* been pushed that call, the later ones have not, and the caller makes no
\* further call.
C19_RaisingObserver ==
    /\ [](/\ sockets = Len(CallsNamed("socket_open"))
                          - Len(CallsNamed("socket_close"))
          /\ socket_data_received = SizesIn(calls)
          /\ nb_hits = Len(CallsNamed("add_hit"))
          /\ start_time # NoneT <=> CallsNamed("startTestRun") # <<>>
          /\ stop_time # NoneT <=> CallsNamed("stopTestRun") # <<>>
          /\ nb_success = Len(CallsNamed("addSuccess"))
          /\ nb_failures = Len(CallsNamed("addFailure"))
          /\ nb_errors = Len(CallsNamed("addError"))
          /\ nb_finished_tests > 0 <=> CallsNamed("stopTest") # <<>>
          /\ nb_tests > 0 <=>
                \E j \in 1..Len(calls) :
                   calls[j].name \in {"startTest", "stopTest"}
                                        \cup OutcomeEvents
          /\ \A j \in 1..Len(calls) : calls[j].raising > 0 => j = Len(calls))
    /\ [][(Len(calls') = Len(calls) + 1 /\ calls'[Len(calls')].raising > 0)
          => LET c == calls'[Len(calls')]
             IN pushed' = pushed \o
                   [i \in 1..c.raising |->
                      [obs |-> observers[i], name |-> c.name,
                       args |-> c.args, seen |-> Committed']]
         ]_vars

\* the push of the first of two observers raised during socket_open, after
\* a call that reached both
C19_Witness ==
    /\ Len(observers) = 2
    /\ Len(calls) = 2
    /\ calls[2].name = "socket_open" /\ calls[2].raising = 1
    /\ sockets = 1
    /\ Len(pushed) = 3

====
